---- MODULE Spec2Model ----
(***************************************************************************)
(* A model of plugins/modules/files/toml_file.py: the Ansible module that  *)
(* edits one section / key of a TOML file.  One behaviour is a sequence of *)
(* invocations of the module with the same parameters against one target   *)
(* path; each invocation is load -> reconcile -> temp-file write -> atomic *)
(* move -> return, as do_toml runs them.                                   *)
(***************************************************************************)
EXTENDS Naturals, Sequences, FiniteSets, TLC

VARIABLES
    file,       \* what is at the target path
    tmp,        \* what is in this invocation's mkstemp file
    req,        \* module.params, module.check_mode and the entry point
    pc,         \* position of the invocation
    content,    \* do_toml's local `content` (the loaded dict)
    changed,    \* do_toml's local `changed`
    msg,        \* do_toml's local `msg` (list of messages)
    result,     \* what the invocation handed to exit_json / returned
    run,        \* which invocation of the sequence this is (1-based)
    pre,        \* history: the target path's content when this invocation began
    persisted,  \* history: atomic_move replaced the target in this invocation
    ioFailed,   \* history: an I/O failure was injected in some invocation
    prev        \* history: how the previous invocation ended

vars == <<file, tmp, req, pc, content, changed, msg, result, run, pre,
          persisted, ioFailed, prev>>

\* How many times in a row the module is invoked with the same parameters.
MaxRuns == 2

-----------------------------------------------------------------------------
(* Python values.  Every value has the same three fields so that any two   *)
(* of them can be compared, as Python's == and != compare any two objects. *)

EmptyDict == << >>

PyNone == [t |-> "none", s |-> "", m |-> EmptyDict]

PyStr(str) == [t |-> "str", s |-> str, m |-> EmptyDict]

PyDict(map) == [t |-> "dict", s |-> "", m |-> map]

\* bool(x) for a parameter of type str: None and '' are falsy.
Truthy(v) == v.t = "str" /\ v.s # ""

\* The characters of the strings the model draws its inputs from.
Chars(str) ==
    CASE str = "" -> << >>
      [] str = "a" -> <<"a">>
      [] str = "b" -> <<"b">>
      [] str = "ab" -> <<"a", "b">>
      [] str = "None" -> <<"N", "o", "n", "e">>

\* `needle in hay` for two str objects: substring test.
StrContains(hay, needle) ==
    LET h == Chars(hay)
        n == Chars(needle)
    IN  \E i \in 0..Len(h) :
            /\ i + Len(n) <= Len(h)
            /\ \A j \in 1..Len(n) : h[i + j] = n[j]

\* dict operations
Has(d, k) == k \in DOMAIN d

Put(d, k, v) == [x \in (DOMAIN d) \cup {k} |-> IF x = k THEN v ELSE d[x]]

Pop(d, k) == [x \in (DOMAIN d) \ {k} |-> d[x]]

\* str.format of a value: None prints as 'None'.
Format(v) == IF v.t = "none" THEN "None" ELSE v.s

\* ' '.join(msg), each message kept as the sequence of its pieces
RECURSIVE Join(_)
Join(msgs) ==
    IF msgs = << >> THEN << >>
    ELSE IF Len(msgs) = 1 THEN Head(msgs)
    ELSE Head(msgs) \o <<" ">> \o Join(Tail(msgs))

-----------------------------------------------------------------------------
(* Files.                                                                  *)

Missing == [kind |-> "missing", doc |-> EmptyDict]

Garbage == [kind |-> "garbage", doc |-> EmptyDict]

Partial == [kind |-> "partial", doc |-> EmptyDict]

Toml(d) == [kind |-> "toml", doc |-> d]

\* toml.dump: a key whose value is None is not written, at the top level or
\* inside a table; an empty table is written as its header alone.
DumpTable(t) ==
    LET keep == {k \in DOMAIN t : t[k].t # "none"}
    IN  [k \in keep |-> t[k]]

Dump(c) ==
    LET keep == {n \in DOMAIN c : c[n].t # "none"}
    IN  Toml([n \in keep |->
                IF c[n].t = "dict" THEN PyDict(DumpTable(c[n].m)) ELSE c[n]])

-----------------------------------------------------------------------------
(* The inputs.                                                             *)

TopNames == {"a", "b"}

KeyNames == {"a", "b"}

DocValues == {"a", "ab"}

Tables == UNION {[K -> {PyStr(v) : v \in DocValues}] : K \in SUBSET KeyNames}

TopEntries == {PyStr(v) : v \in DocValues} \cup {PyDict(t) : t \in Tables}

Documents == UNION {[N -> TopEntries] : N \in SUBSET TopNames}

Files == {Missing, Garbage} \cup {Toml(d) : d \in Documents}

SectionParams == {PyNone, PyStr(""), PyStr("a")}

KeyParams == {PyNone, PyStr(""), PyStr("a"), PyStr("b")}

ValueParams == {PyNone, PyStr(""), PyStr("a"), PyStr("ab")}

Requests ==
    [section : SectionParams, key : KeyParams, value : ValueParams,
     state : {"present", "absent"}, create : BOOLEAN, check_mode : BOOLEAN,
     entry : {"run_module", "do_toml"}]

NoResult == [returned |-> FALSE, changed |-> FALSE, msg |-> << >>]

NoPrev == [pc |-> "none", changed |-> FALSE, pre |-> Missing, post |-> Missing]

Terminal == {"done", "failed", "crashed"}

-----------------------------------------------------------------------------
(* do_toml, lines 146-186: the reconciliation.  working_context is a       *)
(* reference into `content`; the model keeps which object it refers to:    *)
(* "top" (content itself), "section" (content[section]) or "none" (None).  *)

\* "Find the right section to work on."
SectionStep(c, r) ==
    LET sec == r.section.s
        same == [content |-> c, wc |-> "none", changed |-> FALSE, msg |-> << >>]
    IN  IF Truthy(r.section)
        THEN IF r.state = "present"
             THEN IF ~Has(c, sec)
                  THEN [content |-> Put(c, sec, PyDict(EmptyDict)),
                        wc |-> "section", changed |-> TRUE,
                        msg |-> << <<"Added section ", sec, ".">> >>]
                  ELSE [same EXCEPT !.wc = "section"]
             ELSE IF Truthy(r.key)
                  THEN IF Has(c, sec)
                       THEN [same EXCEPT !.wc = "section"]
                       ELSE same
                  ELSE IF Has(c, sec)
                       THEN [content |-> Pop(c, sec), wc |-> "none",
                             changed |-> TRUE,
                             msg |-> << <<"Removed section ", sec, ".">> >>]
                       ELSE same
        ELSE [same EXCEPT !.wc = "top"]

\* The object working_context refers to.
Context(c, wc, r) ==
    CASE wc = "top" -> PyDict(c)
      [] wc = "section" -> c[r.section.s]
      [] wc = "none" -> PyNone

\* `content` after the dict working_context refers to became `map`.
WithContext(c, wc, r, map) ==
    IF wc = "top" THEN map ELSE Put(c, r.section.s, PyDict(map))

\* Whether the key step raises (TypeError / AttributeError), which nothing
\* catches: `in`, item assignment, indexing and pop on a str or on None.
KeyStepRaises(ctx, r) ==
    /\ Truthy(r.key)
    /\ IF r.state = "present"
       THEN \* str: `working_context[key] = None` or `working_context[key]`
            ctx.t # "dict"
       ELSE \/ ctx.t = "none"      \* `key in None`
            \/ /\ ctx.t = "str"    \* substring found, then pop / index a str
               /\ StrContains(ctx.s, r.key.s)

\* "Add or remove the key in the working_context", on a dict context.
KeyStepOnDict(map, r) ==
    LET k == r.key.s
        same == [map |-> map, changed |-> FALSE, msg |-> << >>]
    IN  IF r.state = "present"
        THEN LET held == IF ~Has(map, k) THEN Put(map, k, PyNone) ELSE map
             IN  IF held[k] # r.value
                 THEN [map |-> Put(held, k, r.value), changed |-> TRUE,
                       msg |-> << <<"Added key ", k, "=", Format(r.value), ".">> >>]
                 ELSE [same EXCEPT !.map = held]
        ELSE IF Has(map, k)
             THEN IF ~Truthy(r.value)
                  THEN [map |-> Pop(map, k), changed |-> TRUE,
                        msg |-> << <<"Removed key ", k, ".">> >>]
                  ELSE IF map[k] = r.value
                       THEN [map |-> Pop(map, k), changed |-> TRUE,
                             msg |-> << <<"Removed key ", k, ".">> >>]
                       ELSE same
             ELSE same

\* Lines 146-186 as a whole: the section step, then the key step.
Reconciled(c, r) ==
    LET st == SectionStep(c, r)
        ctx == Context(st.content, st.wc, r)
    IN  IF KeyStepRaises(ctx, r)
        THEN [raised |-> TRUE, content |-> st.content,
              changed |-> st.changed, msg |-> st.msg]
        ELSE IF Truthy(r.key) /\ ctx.t = "dict"
        THEN LET ks == KeyStepOnDict(ctx.m, r)
             IN  [raised |-> FALSE,
                  content |-> WithContext(st.content, st.wc, r, ks.map),
                  changed |-> st.changed \/ ks.changed,
                  msg |-> st.msg \o ks.msg]
        ELSE [raised |-> FALSE, content |-> st.content,
              changed |-> st.changed, msg |-> st.msg]

\* Line 188: `if changed and not module.check_mode`.
ShouldPersist_IgnoresChanged(ch, check_mode) == ~check_mode

ShouldPersist(ch, check_mode) == ch /\ ~check_mode

-----------------------------------------------------------------------------
(* The invocation, step by step.                                           *)

Init ==
    /\ file \in Files
    /\ req \in Requests
    /\ tmp = Missing
    /\ pc = "start"
    /\ content = EmptyDict
    /\ changed = FALSE
    /\ msg = << >>
    /\ result = NoResult
    /\ run = 1
    /\ pre = file
    /\ persisted = FALSE
    /\ ioFailed = FALSE
    /\ prev = NoPrev

\* run_module, lines 234-235: in check mode exit with the initial result.
CheckModeExit ==
    /\ pc = "start"
    /\ req.entry = "run_module"
    /\ req.check_mode
    /\ result' = [returned |-> TRUE, changed |-> FALSE, msg |-> << >>]
    /\ pc' = "done"
    /\ UNCHANGED <<file, tmp, req, content, changed, msg, run, pre,
                   persisted, ioFailed, prev>>

\* Whether control reaches do_toml.
EntersDoToml == req.entry = "do_toml" \/ ~req.check_mode

\* do_toml, lines 137-144: parse the file, or an empty document if none.
Load ==
    /\ pc = "start"
    /\ EntersDoToml
    /\ file.kind \in {"missing", "toml"}
    /\ content' = IF file.kind = "toml" THEN file.doc ELSE EmptyDict
    /\ pc' = "loaded"
    /\ UNCHANGED <<file, tmp, req, changed, msg, result, run, pre,
                   persisted, ioFailed, prev>>

\* do_toml, lines 140-142: TomlDecodeError -> fail_json.
LoadDecodeError ==
    /\ pc = "start"
    /\ EntersDoToml
    /\ file.kind \notin {"missing", "toml"}
    /\ msg' = << <<"Could not decode file as TOML">> >>
    /\ pc' = "failed"
    /\ UNCHANGED <<file, tmp, req, content, changed, result, run, pre,
                   persisted, ioFailed, prev>>

\* do_toml, lines 146-186, when no statement raises.
Reconcile ==
    /\ pc = "loaded"
    /\ LET rec == Reconciled(content, req)
       IN  /\ ~rec.raised
           /\ content' = rec.content
           /\ changed' = rec.changed
           /\ msg' = rec.msg
    /\ pc' = "reconciled"
    /\ UNCHANGED <<file, tmp, req, result, run, pre, persisted, ioFailed, prev>>

\* do_toml, lines 169-186, when the key step raises: the module dies with a
\* traceback; nothing was written.
ReconcileRaises ==
    /\ pc = "loaded"
    /\ LET rec == Reconciled(content, req)
       IN  /\ rec.raised
           /\ content' = rec.content
           /\ changed' = rec.changed
           /\ msg' = rec.msg
    /\ pc' = "crashed"
    /\ UNCHANGED <<file, tmp, req, result, run, pre, persisted, ioFailed, prev>>

\* do_toml, lines 189-193: mkstemp in module.tmpdir, toml.dump, close.
WriteTemp ==
    /\ pc = "reconciled"
    /\ ShouldPersist(changed, req.check_mode)
    /\ tmp' = Dump(content)
    /\ pc' = "tmp_written"
    /\ UNCHANGED <<file, req, content, changed, msg, result, run, pre,
                   persisted, ioFailed, prev>>

\* do_toml, lines 194-195: IOError while creating or writing the temporary
\* file -> fail_json; the temporary file is absent or incomplete.
WriteTempFails ==
    /\ pc = "reconciled"
    /\ ShouldPersist(changed, req.check_mode)
    /\ tmp' \in {Missing, Partial}
    /\ pc' = "failed"
    /\ ioFailed' = TRUE
    /\ UNCHANGED <<file, req, content, changed, msg, result, run, pre,
                   persisted, prev>>

\* do_toml, line 198: module.atomic_move(tmpfile, path), a rename.
AtomicMove ==
    /\ pc = "tmp_written"
    /\ file' = tmp
    /\ tmp' = Missing
    /\ persisted' = TRUE
    /\ pc' = "moved"
    /\ UNCHANGED <<req, content, changed, msg, result, run, pre, ioFailed, prev>>

\* A replace that is a copy over the target, interrupted half way.
AtomicMoveFails_CopyInPlace ==
    /\ pc = "tmp_written"
    /\ file' = Partial
    /\ pc' = "failed"
    /\ ioFailed' = TRUE
    /\ UNCHANGED <<tmp, req, content, changed, msg, result, run, pre,
                   persisted, prev>>

\* do_toml, lines 197-202: the move fails (atomic_move calls fail_json, or
\* raises IOError and the handler's `module.ansible` raises AttributeError);
\* either way the invocation ends in failure with the temporary file left
\* behind and the target as it was.
AtomicMoveFails ==
    /\ pc = "tmp_written"
    /\ pc' = "failed"
    /\ ioFailed' = TRUE
    /\ UNCHANGED <<file, tmp, req, content, changed, msg, result, run, pre,
                   persisted, prev>>

\* do_toml, lines 203-204, and run_module, lines 239-245 (which touch the
\* file's attributes only, never its content).
Return ==
    /\ \/ pc = "moved"
       \/ pc = "reconciled" /\ ~ShouldPersist(changed, req.check_mode)
    /\ result' = [returned |-> TRUE, changed |-> changed, msg |-> Join(msg)]
    /\ pc' = "done"
    /\ UNCHANGED <<file, tmp, req, content, changed, msg, run, pre,
                   persisted, ioFailed, prev>>

\* The same task is applied again: a fresh process with the same parameters.
Reapply ==
    /\ pc \in Terminal
    /\ run < MaxRuns
    /\ prev' = [pc |-> pc, changed |-> result.changed, pre |-> pre, post |-> file]
    /\ run' = run + 1
    /\ pre' = file
    /\ tmp' = Missing
    /\ content' = EmptyDict
    /\ changed' = FALSE
    /\ msg' = << >>
    /\ result' = NoResult
    /\ persisted' = FALSE
    /\ pc' = "start"
    /\ UNCHANGED <<file, req, ioFailed>>

Next ==
    \/ CheckModeExit
    \/ Load
    \/ LoadDecodeError
    \/ Reconcile
    \/ ReconcileRaises
    \/ WriteTemp
    \/ WriteTempFails
    \/ AtomicMove
    \/ AtomicMoveFails
    \/ Return
    \/ Reapply

Spec == Init /\ [][Next]_vars

-----------------------------------------------------------------------------
(* What the claims speak of.                                               *)

\* A file toml.load accepts, or no file.
Loadable(f) == f.kind \in {"missing", "toml"}

\* The Document do_toml loads from f.
Doc(f) == IF f.kind = "toml" THEN f.doc ELSE EmptyDict

\* This invocation's reconciliation ran to its end without raising.
ReconcileDone ==
    \/ pc \in {"reconciled", "tmp_written", "moved"}
    \/ pc = "done" /\ EntersDoToml

\* The dict the request's key step works in, within the loaded Document d:
\* the named section if it is a table, the top level if no section is named;
\* PyNone when there is none.
LoadedContext(d) ==
    IF Truthy(req.section)
    THEN IF Has(d, req.section.s) /\ d[req.section.s].t = "dict"
         THEN d[req.section.s]
         ELSE PyNone
    ELSE PyDict(d)

\* The same in the Document in memory.
MemoryContext == LoadedContext(content)

\* C1: a real run (check mode off) on a loadable Document, followed by a
\* second run of the same request with no I/O failure in either, ends its
\* second run normally with changed = false and the target as the first run
\* left it.
C1_Idempotent ==
    (/\ run = 2
     /\ pc \in Terminal
     /\ ~ioFailed
     /\ ~req.check_mode
     /\ Loadable(prev.pre))
    => (/\ pc = "done"
        /\ result.changed = FALSE
        /\ file = prev.post)

\* Related to C1: when both runs return, the second reports no change and
\* leaves the target as it was.
IdempotentWhenBothReturn ==
    (/\ run = 2
     /\ pc = "done"
     /\ prev.pc = "done"
     /\ ~req.check_mode)
    => (result.changed = FALSE /\ file = prev.post)

\* C2: at every step the target path holds either what it held when the
\* invocation began or the complete serialization of the Document in memory,
\* and after a failure it holds what it held when the invocation began.
C2_OldOrNewTarget ==
    /\ file = pre \/ (persisted /\ file = Dump(content))
    /\ pc \in {"failed", "crashed"} => file = pre

\* C2's case: the move failed after the temporary file was written.
C2_Witness ==
    /\ pc = "failed"
    /\ tmp = Dump(content)
    /\ tmp # file
    /\ file = pre

\* C3: a check-mode invocation of the module reports the changed flag and
\* message the same request reports with check mode off, and writes nothing.
C3_DryRunSameOutcome ==
    (/\ pc = "done"
     /\ req.entry = "run_module"
     /\ req.check_mode
     /\ Loadable(pre)
     /\ ~Reconciled(Doc(pre), req).raised)
    => (/\ result.changed = Reconciled(Doc(pre), req).changed
        /\ result.msg = Join(Reconciled(Doc(pre), req).msg)
        /\ file = pre)

\* C4: with no file at the target path and create = false, the invocation
\* fails before do_toml runs and no file is created.
C4_CreateFalseFailsEarly ==
    (/\ run = 1
     /\ req.entry = "run_module"
     /\ ~req.check_mode
     /\ ~req.create
     /\ pre = Missing)
    => (pc \in {"start", "failed"} /\ file = Missing)

\* C5: state = absent with section and key given, on a Document without the
\* section: no error, the section is not created, changed = false and the
\* message is empty.
C5_AbsentKeyMissingSection ==
    (/\ Truthy(req.section)
     /\ Truthy(req.key)
     /\ req.state = "absent"
     /\ EntersDoToml
     /\ Loadable(pre)
     /\ ~Has(Doc(pre), req.section.s)
     /\ pc \notin {"start", "loaded"})
    => (/\ pc = "done"
        /\ ~Has(content, req.section.s)
        /\ result.changed = FALSE
        /\ result.msg = << >>)

\* C6: state = absent with a key that is present in the working context:
\* with no value supplied the key is removed, changed = true and the message
\* is "Removed key {key}."; with a value supplied (any string) that differs
\* from the current one the key stays, changed = false and no message.
C6_ValueGuardedRemoval ==
    (/\ ReconcileDone
     /\ Truthy(req.key)
     /\ req.state = "absent"
     /\ LoadedContext(Doc(pre)).t = "dict"
     /\ Has(LoadedContext(Doc(pre)).m, req.key.s))
    => LET cur == LoadedContext(Doc(pre)).m[req.key.s]
       IN  /\ req.value.t = "none" =>
                /\ ~Has(MemoryContext.m, req.key.s)
                /\ changed
                /\ msg = << <<"Removed key ", req.key.s, ".">> >>
           /\ (req.value.t = "str" /\ req.value # cur) =>
                /\ content = Doc(pre)
                /\ ~changed
                /\ msg = << >>

\* C8: state = present with a key: if the key is not in the working context
\* or its value differs from the requested one, the key is set to the
\* requested value, changed = true and the last message is
\* "Added key {key}={value}."; otherwise the key step changes nothing.
C8_KeyPresentRule ==
    (/\ ReconcileDone
     /\ Truthy(req.key)
     /\ req.state = "present")
    => LET before == SectionStep(Doc(pre), req)
           ctx == Context(before.content, before.wc, req).m
           k == req.key.s
       IN  IF ~Has(ctx, k) \/ ctx[k] # req.value
           THEN /\ Has(MemoryContext.m, k)
                /\ MemoryContext.m[k] = req.value
                /\ changed
                /\ msg # << >>
                /\ msg[Len(msg)] = <<"Added key ", k, "=", Format(req.value), ".">>
           ELSE /\ content = before.content
                /\ changed = before.changed
                /\ msg = before.msg

\* C7: the target is replaced exactly when changed = true and check mode is
\* off; the temporary file is written only then, and with changed = false
\* the target is neither created nor rewritten.
C7_PersistIffChanged ==
    /\ (pc = "done" /\ EntersDoToml) =>
            (persisted <=> (changed /\ ~req.check_mode))
    /\ pc \in {"tmp_written", "moved"} => (changed /\ ~req.check_mode)
    /\ (persisted \/ tmp # Missing) => (changed /\ ~req.check_mode)
    /\ (~changed \/ req.check_mode) => file = pre

\* C7's case: a change was made with check mode off and the target replaced.
C7_Witness ==
    /\ pc = "done"
    /\ changed
    /\ ~req.check_mode
    /\ persisted
    /\ file = Dump(content)
    /\ file # pre

\* C9: a request that names a section leaves every top-level key/value entry
\* and every other section as loaded; a request without a section leaves
\* every section, and every top-level key but the named one, as loaded.
C9_ScopeSeparation ==
    (ReconcileDone /\ Loadable(pre))
    => LET d == Doc(pre)
       IN  IF Truthy(req.section)
           THEN /\ \A n \in DOMAIN d :
                     (n # req.section.s \/ d[n].t = "str")
                        => (Has(content, n) /\ content[n] = d[n])
                /\ \A n \in DOMAIN content : Has(d, n) \/ n = req.section.s
           ELSE /\ \A n \in DOMAIN d :
                     (d[n].t = "dict" \/ ~Truthy(req.key) \/ n # req.key.s)
                        => (Has(content, n) /\ content[n] = d[n])
                /\ \A n \in DOMAIN content :
                     Has(d, n) \/ (Truthy(req.key) /\ n = req.key.s)

\* C10: when do_toml completes, changed = true exactly when the Document in
\* memory differs from the Document that was loaded.
C10_ChangedExact ==
    (ReconcileDone /\ Loadable(pre))
    => (changed <=> content # Doc(pre))

\* Related to C10: changed = true exactly when what would be written differs
\* from the Document that was loaded.
ChangedIffSerializationDiffers ==
    (ReconcileDone /\ Loadable(pre))
    => (changed <=> Dump(content) # Toml(Doc(pre)))

====
